---- MODULE Spec2Model ----
(***************************************************************************)
(* A model of the winter-weather aggregation scripts:                      *)
(*   split_weather_stations.py  (raw rows -> split/<datatype>/<name>.csv)  *)
(*   calculate_avg_tmax_tmin.py (gather, write_output)                     *)
(*   calculate_warmest_year.py  (top-20, year tiers, winter ranking)       *)
(*                                                                         *)
(* Strings that the code takes apart (station names) are sequences of      *)
(* tokens: words and the separators " ", "-" and ",".  An optional value   *)
(* (None, or a blank CSV cell) is the empty sequence, a present value v    *)
(* is <<v>>.  A Python dict is a function over the keys it holds.          *)
(***************************************************************************)
EXTENDS Integers, Sequences, FiniteSets, TLC

\* ------------------------------------------------------------------ bounds
\* Raw rows the splitter is fed in one run of the model.
MaxRows == 3
\* Records classified in the period-classification specification.
MaxRecs == 2
\* Observations of one station file in the year-tier specification.
MaxObs == 3
\* Raw rows the splitter is fed in the month-filter specification.
MaxFilterRows == 4
\* Raw rows the splitter is fed in the baseline specification.
MaxBaseRows == 3
\* Tokens (words and separators) of a raw station name.
MaxTokens == 4
\* Raw rows the splitter is fed in the monthly-average specification.
MaxMonthRows == 4
\* Winters (Nov, Dec, Jan rows) the splitter is fed in the winter-ranking
\* specification.
MaxWinters == 3
\* Times the download script is started.
MaxRuns == 2

\* ------------------------------------------------------- generic helpers
None == <<>>
Some(v) == <<v>>

Range(s) == {s[i] : i \in DOMAIN s}

RECURSIVE SumSeq(_)
SumSeq(s) == IF s = <<>> THEN 0 ELSE Head(s) + SumSeq(Tail(s))

RECURSIVE Concat(_)
Concat(ss) == IF ss = <<>> THEN <<>> ELSE Head(ss) \o Concat(Tail(ss))

\* The orders in which a set can be iterated.
Orders(S) ==
  {o \in [1..Cardinality(S) -> S] : \A i, j \in DOMAIN o : i # j => o[i] # o[j]}

\* A stable sort: Python's list.sort.  Less is the strict order of the keys.
StableSort(s, Less(_, _)) ==
  LET RECURSIVE Ins(_, _)
      Ins(x, t) == IF t = <<>> THEN <<x>>
                   ELSE IF Less(x, Head(t)) THEN <<x>> \o t
                   ELSE <<Head(t)>> \o Ins(x, Tail(t))
      RECURSIVE Srt(_)
      Srt(u) == IF u = <<>> THEN <<>>
                ELSE Ins(u[Len(u)], Srt(SubSeq(u, 1, Len(u) - 1)))
  IN  Srt(s)

\* f with key k set to v (dict assignment) and with v appended to the list
\* at k (defaultdict(list)[k].append(v)).
Put(f, k, v) == [x \in (DOMAIN f) \cup {k} |-> IF x = k THEN v ELSE f[x]]
Get(f, k, default) == IF k \in DOMAIN f THEN f[k] ELSE default
AppendAt(f, k, v) == Put(f, k, Append(Get(f, k, <<>>), v))

\* round(): to the nearest integer, a tie to the even one.  num/den, den > 0.
RoundHalfUp(num, den) ==
  LET q == num \div den
      r == num % den
  IN  IF 2 * r < den THEN q ELSE q + 1

RoundHalfEven(num, den) ==
  LET q == num \div den
      r == num % den
  IN  IF 2 * r < den THEN q
      ELSE IF 2 * r > den THEN q + 1
      ELSE IF q % 2 = 0 THEN q ELSE q + 1

\* round(statistics.mean(vals)) if vals else None / ''
RoundedMean(vals) ==
  IF vals = <<>> THEN None ELSE Some(RoundHalfEven(SumSeq(vals), Len(vals)))

\* ---------------------------------------------------------- station names
\* The words of the model's station names: <<lower, Title, UPPER>> forms.
WordForms ==
  { <<"billings", "Billings", "BILLINGS">>,
    <<"logan", "Logan", "LOGAN">>,
    <<"miles", "Miles", "MILES">>,
    <<"city", "City", "CITY">>,
    <<"great", "Great", "GREAT">>,
    <<"falls", "Falls", "FALLS">>,
    <<"ap", "Ap", "AP">>,
    <<"mt", "Mt", "MT">> }

FormsOf(w) == CHOOSE f \in WordForms : w \in Range(f)
Lower(w) == IF w \in {" ", "-", ","} THEN w ELSE FormsOf(w)[1]
Title(w) == IF w \in {" ", "-", ","} THEN w ELSE FormsOf(w)[2]

\* Alphabetical position of a lower-case token; the space sorts first.
AlphaOrder ==
  <<" ", ",", "-", "ap", "billings", "city", "falls", "great", "logan", "miles", "mt">>
AlphaRank(t) == CHOOSE i \in DOMAIN AlphaOrder : AlphaOrder[i] = t

LowerStr(s) == [i \in DOMAIN s |-> Lower(s[i])]

\* a < b for two lower-case strings, compared from the left.
RECURSIVE StrLess(_, _)
StrLess(a, b) ==
  IF b = <<>> THEN FALSE
  ELSE IF a = <<>> THEN TRUE
  ELSE IF Head(a) # Head(b) THEN AlphaRank(Head(a)) < AlphaRank(Head(b))
  ELSE StrLess(Tail(a), Tail(b))

\* s.split(',')[0]
RECURSIVE BeforeComma(_)
BeforeComma(s) ==
  IF s = <<>> \/ Head(s) = "," THEN <<>> ELSE <<Head(s)>> \o BeforeComma(Tail(s))

\* s.replace('-', ' ').split(): the words, separators dropped (this also
\* does what the strip() before it does).
SplitWords(s) == SelectSeq(s, LAMBDA t : t \notin {" ", "-"})

\* ' '.join(ws)
RECURSIVE JoinSpace(_)
JoinSpace(ws) ==
  IF ws = <<>> THEN <<>>
  ELSE IF Len(ws) = 1 THEN ws
  ELSE <<Head(ws), " ">> \o JoinSpace(Tail(ws))

normalize_display_name_case_sensitive(full_name) ==
  LET parts == SplitWords(BeforeComma(full_name))
      two(a, b) == Len(parts) >= 2 /\ parts[1] = a /\ parts[2] = b
      chosen == IF two("miles", "city") \/ two("great", "falls")
                THEN SubSeq(parts, 1, 2)
                ELSE SubSeq(parts, 1, IF Len(parts) >= 1 THEN 1 ELSE 0)
  IN  JoinSpace([i \in DOMAIN chosen |-> Title(chosen[i])])

normalize_display_name(full_name) ==
  LET parts == SplitWords(BeforeComma(full_name))
      two(a, b) == Len(parts) >= 2 /\ Lower(parts[1]) = a /\ Lower(parts[2]) = b
      chosen == IF two("miles", "city") \/ two("great", "falls")
                THEN SubSeq(parts, 1, 2)
                ELSE SubSeq(parts, 1, IF Len(parts) >= 1 THEN 1 ELSE 0)
  IN  JoinSpace([i \in DOMAIN chosen |-> Title(chosen[i])])

\* disp.replace(' ', '') + '.csv': the file a station's report goes to.
ReportFileName(disp) == SelectSeq(disp, LAMBDA t : t # " ")

\* split_weather_stations.normalize_station_name: strip, lower, ' ' -> '-'.
RECURSIVE StripLeft(_)
StripLeft(s) == IF s # <<>> /\ Head(s) = " " THEN StripLeft(Tail(s)) ELSE s

RECURSIVE StripRight(_)
StripRight(s) ==
  IF s # <<>> /\ s[Len(s)] = " " THEN StripRight(SubSeq(s, 1, Len(s) - 1)) ELSE s

normalize_station_name(name) ==
  LET t == StripRight(StripLeft(name))
  IN  [i \in DOMAIN t |-> IF t[i] = " " THEN "-" ELSE Lower(t[i])]

\* ------------------------------------------------------------------ dates
Date(y, m, d) == [y |-> y, m |-> m, d |-> d]
\* A date field that neither fromisoformat nor strptime accepts.
BadDate == [y |-> 0, m |-> 0, d |-> 0]
ParsesAsDate(dt) == dt.m \in 1..12

\* d1 < d2 on datetime.date
DateLess(a, b) ==
  \/ a.y < b.y
  \/ a.y = b.y /\ a.m < b.m
  \/ a.y = b.y /\ a.m = b.m /\ a.d < b.d

RECENT_CUTOFF == Date(2025, 10, 1)
OLD_CUTOFF == Date(2000, 10, 1)
PERIODS == <<"all", "<2000", "2026">>
WINTER_MONTHS == <<10, 11, 12, 1, 2, 3>>
INCLUDED_MONTHS_as_winter == <<10, 11, 12, 1, 2, 3>>

INCLUDED_MONTHS == <<11, 12, 1, 2>>
IndexOf(seq, x) == CHOOSE i \in DOMAIN seq : seq[i] = x
\* MONTH_ORDER.get(m, 99), SEASON_ORDER.get(m, 99), period_index.get(p, 99)
MONTH_ORDER(m) == IF m \in Range(WINTER_MONTHS) THEN IndexOf(WINTER_MONTHS, m) - 1 ELSE 99
SEASON_ORDER(m) == IF m \in Range(INCLUDED_MONTHS) THEN IndexOf(INCLUDED_MONTHS, m) - 1 ELSE 99
period_index(p) == IF p \in Range(PERIODS) THEN IndexOf(PERIODS, p) - 1 ELSE 99

\* ----------------------------------------------------------------- inputs
\* A raw row: station_id, station_name, date, datatype, value (attributes
\* are never read).  value is <<v>>, or <<>> for a field float() rejects.
Row(sid, name, dt, kind, val) ==
  [station_id |-> sid, station_name |-> name, date |-> dt, datatype |-> kind, value |-> val]

NameBillingsAp == <<"BILLINGS", " ", "AP", ",", " ", "MT">>
NameBillingsLogan == <<"Billings", "-", "Logan">>
NameMilesCity == <<"MILES", " ", "CITY", ",", " ", "MT">>

\* The stations of the model: two ids whose names normalize to the same
\* display name, and a third with a two-word display name.
Stations ==
  { <<"GHCND:1", NameBillingsAp>>,
    <<"GHCND:2", NameBillingsLogan>>,
    <<"GHCND:3", NameMilesCity>> }

\* The <<datatype, value>> readings of the model's rows.
Readings == {<<"TMIN", 20>>, <<"TMAX", 20>>, <<"TMAX", 25>>}
SeasonDates == {Date(1999, 11, 15), Date(1999, 12, 15), Date(2000, 1, 15)}

\* Rows whose date or value does not parse; the splitter passes them on.
BadRows ==
  { Row("GHCND:1", NameBillingsAp, BadDate, "TMIN", Some(20)),
    Row("GHCND:1", NameBillingsAp, Date(1999, 11, 15), "TMAX", None) }

InputRows ==
  { Row(st[1], st[2], dt, r[1], Some(r[2])) :
      st \in Stations, dt \in SeasonDates, r \in Readings }
  \cup BadRows

\* ------------------------------------------------------------------ state
VARIABLES
  pc,                     \* where the run is
  split,                  \* split/<datatype>/<name>.csv: <<datatype, name>> -> rows
  fed,                    \* raw rows the splitter has read
  tmin, tmax,             \* gather: (disp, month, period) -> values
  station_display_cache,  \* gather: station_name -> display name
  tmin_monthly, tmax_monthly, \* gather: (station_id, year, month) -> values
  station_years,          \* gather: station_id -> calendar years seen
  station_display_by_id,  \* gather: station_id -> display name
  rows,                   \* gather: the monthly-by-period rows
  monthly_avgs,           \* gather: station_id -> ((y, m) -> <<avg_max, avg_min>>)
  ma_order,               \* gather: the order monthly_avgs.items() iterates in
  idx,                    \* gather: stations the monthly-CSV loop has done
  monthly_files,          \* average-temp-data/monthly/<file>: rows
  yearly_files,           \* average-temp-data/yearly/<file>: rows
  agg_files,              \* analysis/aggregated-avg-temp: "all", "pre2000" -> rows
  agg_writes,             \* how often the two baseline files were written
  monthly_written,        \* station_id -> the rows its monthly-CSV iteration wrote
  yearly_written,         \* station_id -> the rows its yearly-CSV iteration wrote
  ret,                    \* gather's return value: "unset", "None" or "rows"
  out_files,              \* monthly_avgs.csv and split/avg-temp/<file>: rows
  ranked_files,           \* split/avg-temp-ranking/<high|low>/<file>: top-20 rows
  tier_files,             \* split/year-tiers/<high|low>/<file>: rows
  series_files,           \* analysis/<high|low>-temp/<file>: rows
  ranking_files,          \* analysis/warmest-winter-<high|low>-ranking.csv: rows
  plog,                   \* the calls made to add_record_for_periods
  name_in,                \* normalize_display_name: the name given
  name_out,               \* what it returned for name_in
  name_again,             \* what it returned for name_out
  attempt,                \* noaa_get: the loop variable
  backoff,                \* noaa_get: seconds of the next wait, without the extra
  responses,              \* noaa_get: what each requests.get so far came back with
  sleeps,                 \* noaa_get: the time.sleep calls so far
  result,                 \* noaa_get: "pending", "returned" or "raised"
  output_files,           \* get_stations: weather-data/<id>.csv -> the rows saved
  dl_idx,                 \* get_stations.main: position in the station list
  dl_year,                \* main: the year to fetch next, 0 at the top of the loop
  dl_all_rows,            \* main: the rows fetched so far for the station
  runs,                   \* how many times main was started
  had_file,               \* stations with an output file when this run started
  requested,              \* stations this run issued a request for
  raised                  \* stations whose fetch raised in this run

\* --------------------------------------------- split_weather_stations.py
\* process_files, one row: append it to split/<datatype>/<norm>.csv.  Rows
\* of the model have six fields and a datatype in TYPES.
split_row(files, row) ==
  AppendAt(files, <<row.datatype, normalize_station_name(row.station_name)>>, row)

\* ------------------------------------------- calculate_avg_tmax_tmin.py
\* The period keys add_record_for_periods stores a date's value under.
PeriodsOfCutoffSwapped(d) ==
  IF DateLess(RECENT_CUTOFF, d) THEN <<"2026">>
  ELSE IF ~DateLess(OLD_CUTOFF, d) THEN <<"all", "<2000">>
  ELSE <<"all">>

PeriodsOf(d) ==
  IF ~DateLess(d, RECENT_CUTOFF) THEN <<"2026">>
  ELSE IF DateLess(d, OLD_CUTOFF) THEN <<"all", "<2000">>
  ELSE <<"all">>

RECURSIVE AppendUnder(_, _, _, _, _)
AppendUnder(store, disp, m, periods, val) ==
  IF periods = <<>> THEN store
  ELSE AppendUnder(AppendAt(store, <<disp, m, Head(periods)>>, val),
                   disp, m, Tail(periods), val)

\* Returns the cache and the store after the call.
add_record_for_periods(cache, store, station_name, d, val) ==
  LET cached == Get(cache, station_name, <<>>)
      miss == cached = <<>>
      disp == IF miss THEN normalize_display_name(station_name) ELSE cached
  IN  [cache |-> IF miss THEN Put(cache, station_name, disp) ELSE cache,
       store |-> AppendUnder(store, disp, d.m, PeriodsOf(d), val)]

\* One row of a file of TMIN_DIR (kind = "TMIN") or TMAX_DIR.  st holds the
\* kind's store and monthly map and what both passes share.
gather_row(st, row, kind) ==
  IF row.datatype # kind \/ ~ParsesAsDate(row.date) \/ row.value = None THEN st
  ELSE
    LET d == row.date
        val == row.value[1]
        r == add_record_for_periods(st.cache, st.store, row.station_name, d, val)
        cached == Get(r.cache, row.station_name, <<>>)
    IN  [store |-> r.store,
         cache |-> r.cache,
         monthly |-> AppendAt(st.monthly, <<row.station_id, d.y, d.m>>, val),
         years |-> Put(st.years, row.station_id,
                       Get(st.years, row.station_id, {}) \cup {d.y}),
         by_id |-> Put(st.by_id, row.station_id,
                       IF cached # <<>> THEN cached
                       ELSE normalize_display_name(row.station_name))]

RECURSIVE gather_file(_, _, _)
gather_file(st, file_rows, kind) ==
  IF file_rows = <<>> THEN st
  ELSE gather_file(gather_row(st, Head(file_rows), kind), Tail(file_rows), kind)

\* for p in DIR.glob('*.csv'): the files in the order glob yields them.
RECURSIVE gather_dir(_, _, _, _)
gather_dir(st, files, names, kind) ==
  IF names = <<>> THEN st
  ELSE gather_dir(gather_file(st, files[Head(names)], kind), files, Tail(names), kind)

FilesOf(files, kind) == {f \in DOMAIN files : f[1] = kind}

\* Some order of a set whose order no result depends on (what is built
\* from it is sorted by a key that tells all its elements apart).
RECURSIVE SeqOfSet(_)
SeqOfSet(S) ==
  IF S = {} THEN <<>>
  ELSE LET x == CHOOSE x \in S : TRUE IN <<x>> \o SeqOfSet(S \ {x})

SortedInts(S) == StableSort(SeqOfSet(S), LAMBDA a, b : a < b)
MinOf(S) == CHOOSE x \in S : \A y \in S : x <= y

\* calendar.month_abbr[m]
MonthAbbrs ==
  <<"Jan", "Feb", "Mar", "Apr", "May", "Jun", "Jul", "Aug", "Sep", "Oct", "Nov", "Dec">>
month_abbr(m) == MonthAbbrs[m]

\* gather, lines 167-180: the monthly-by-period rows, sorted.
period_rows(tmin_, tmax_) ==
  LET keys == SeqOfSet((DOMAIN tmin_) \cup (DOMAIN tmax_))
      kept == SelectSeq(keys, LAMBDA k : k[2] \in Range(WINTER_MONTHS))
      made == [i \in DOMAIN kept |->
                 [m |-> kept[i][2], disp |-> kept[i][1], period |-> kept[i][3],
                  avg_min |-> RoundedMean(Get(tmin_, kept[i], <<>>)),
                  avg_max |-> RoundedMean(Get(tmax_, kept[i], <<>>))]]
      less(a, b) ==
        \/ MONTH_ORDER(a.m) < MONTH_ORDER(b.m)
        \/ /\ MONTH_ORDER(a.m) = MONTH_ORDER(b.m)
           /\ \/ StrLess(LowerStr(a.disp), LowerStr(b.disp))
              \/ /\ LowerStr(a.disp) = LowerStr(b.disp)
                 /\ period_index(a.period) < period_index(b.period)
  IN  StableSort(made, less)

\* gather, lines 183-198: the station ids the loop runs over, and one
\* station's (y, m) -> (avg_max, avg_min).
StationIdsOf(tmin_m, tmax_m) == {k[1] : k \in (DOMAIN tmin_m) \cup (DOMAIN tmax_m)}

station_monthly_avgs(tmin_m, tmax_m, sid) ==
  LET ym_keys == {<<k[2], k[3]>> :
                    k \in {k \in (DOMAIN tmin_m) \cup (DOMAIN tmax_m) : k[1] = sid}}
  IN  [ym \in ym_keys |->
         << RoundedMean(Get(tmax_m, <<sid, ym[1], ym[2]>>, <<>>)),
            RoundedMean(Get(tmin_m, <<sid, ym[1], ym[2]>>, <<>>)) >>]

\* season_year = y if m in (11, 12) else (y - 1)
season_year_of_calendar(y, m) == y

season_year_of(y, m) == IF m \in {11, 12} THEN y ELSE y - 1

\* gather, lines 203-228: the rows written to one station's monthly CSV.
monthly_report_rows(ym_map, years, disp) ==
  LET earliest_calendar_year == MinOf(years)
      kept == {ym \in DOMAIN ym_map :
                 /\ ym[2] \in Range(INCLUDED_MONTHS)
                 /\ season_year_of(ym[1], ym[2]) >= earliest_calendar_year}
      less(a, b) ==
        \/ season_year_of(a[1], a[2]) < season_year_of(b[1], b[2])
        \/ /\ season_year_of(a[1], a[2]) = season_year_of(b[1], b[2])
           /\ SEASON_ORDER(a[2]) < SEASON_ORDER(b[2])
      out_rows == StableSort(SeqOfSet(kept), less)
      written == SelectSeq(out_rows,
                           LAMBDA ym : ~(ym_map[ym][1] = None /\ ym_map[ym][2] = None))
  IN  [i \in DOMAIN written |->
         [year |-> written[i][1], month |-> month_abbr(written[i][2]), station |-> disp,
          avgMaxTemp |-> ym_map[written[i]][1], avgMinTemp |-> ym_map[written[i]][2]]]

\* The season years a station's (y, m) keys give: Nov, Dec -> y, Jan -> y - 1.
season_years_of(ym_map) ==
  {ym[1] : ym \in {k \in DOMAIN ym_map : k[2] \in {11, 12}}}
  \cup {ym[1] - 1 : ym \in {k \in DOMAIN ym_map : k[2] = 1}}

\* The monthly averages (which: 1 = max, 2 = min) of Nov sy, Dec sy and
\* Jan sy+1 that exist, in that order.
season_parts(ym_map, sy, which) ==
  Concat([i \in 1..3 |->
            LET key == <<<<sy, 11>>, <<sy, 12>>, <<sy + 1, 1>>>>[i]
            IN  IF key \in DOMAIN ym_map THEN ym_map[key][which] ELSE <<>>])

\* gather, lines 233-277: the rows written to one station's yearly CSV.
yearly_report_rows(ym_map, years, disp) ==
  LET earliest_calendar_year == MinOf(years)
      season_years == SortedInts({sy \in season_years_of(ym_map) :
                                    sy >= earliest_calendar_year})
      written == SelectSeq(season_years,
                           LAMBDA sy : ~(season_parts(ym_map, sy, 1) = <<>>
                                         /\ season_parts(ym_map, sy, 2) = <<>>))
  IN  [i \in DOMAIN written |->
         [year |-> written[i], station |-> disp,
          avgMaxTemp |-> RoundedMean(season_parts(ym_map, written[i], 1)),
          avgMinTemp |-> RoundedMean(season_parts(ym_map, written[i], 2))]]

\* gather, lines 291-366: one baseline table (limit 2025: all-time, 2000:
\* pre-2000), a row per station of monthly_avgs, sorted by display name.
baseline_rows_through_limit(avgs, order, by_id, limit) ==
  LET parts(sid, which) ==
        LET sys == SortedInts({sy \in season_years_of(avgs[sid]) : sy <= limit})
        IN  Concat([i \in DOMAIN sys |-> season_parts(avgs[sid], sys[i], which)])
      made == [i \in DOMAIN order |->
                 [station |-> Get(by_id, order[i], <<order[i]>>),
                  avgMax |-> RoundedMean(parts(order[i], 1)),
                  avgMin |-> RoundedMean(parts(order[i], 2))]]
  IN  StableSort(made, LAMBDA a, b : StrLess(LowerStr(a.station), LowerStr(b.station)))

baseline_rows(avgs, order, by_id, limit) ==
  LET parts(sid, which) ==
        LET sys == SortedInts({sy \in season_years_of(avgs[sid]) : sy < limit})
        IN  Concat([i \in DOMAIN sys |-> season_parts(avgs[sid], sys[i], which)])
      made == [i \in DOMAIN order |->
                 [station |-> Get(by_id, order[i], <<order[i]>>),
                  avgMax |-> RoundedMean(parts(order[i], 1)),
                  avgMin |-> RoundedMean(parts(order[i], 2))]]
  IN  StableSort(made, LAMBDA a, b : StrLess(LowerStr(a.station), LowerStr(b.station)))

\* write_output: monthly_avgs.csv (file <<"monthly_avgs">>) and one file per
\* display name, disp.lower().replace(' ', '-').
output_row(r) ==
  [station |-> r.disp, month |-> month_abbr(r.m), year |-> r.period,
   avgMin |-> r.avg_min, avgMax |-> r.avg_max]

avg_out_name(disp) == [i \in DOMAIN disp |-> IF disp[i] = " " THEN "-" ELSE Lower(disp[i])]

write_output_files(rows_) ==
  LET disps == {rows_[i].disp : i \in DOMAIN rows_}
      all == [i \in DOMAIN rows_ |-> output_row(rows_[i])]
      per_station == [d \in disps |-> SelectSeq(all, LAMBDA r : r.station = d)]
      files == [f \in {avg_out_name(d) : d \in disps} |->
                  per_station[CHOOSE d \in disps : avg_out_name(d) = f]]
  IN  Put(files, <<"monthly_avgs">>, all)

\* ---------------------------------------------------------------- actions
gather_vars ==
  << tmin, tmax, station_display_cache, tmin_monthly, tmax_monthly, station_years,
     station_display_by_id, rows, monthly_avgs, ma_order, idx, monthly_files,
     yearly_files, agg_files, agg_writes, monthly_written, yearly_written, ret,
     out_files >>

rank_vars == << ranked_files, tier_files, series_files, ranking_files >>

name_vars == << name_in, name_out, name_again >>

http_vars == << attempt, backoff, responses, sleeps, result >>

dl_vars == << output_files, dl_idx, dl_year, dl_all_rows, runs, had_file, requested, raised >>

aux_vars == << http_vars, dl_vars >>

vars == << pc, split, fed, gather_vars, rank_vars, plog, name_vars, aux_vars >>

InitAt(start) ==
  /\ pc = start
  /\ ranked_files = <<>>
  /\ tier_files = <<>>
  /\ series_files = <<>>
  /\ ranking_files = <<>>
  /\ plog = <<>>
  /\ name_in = <<>>
  /\ name_out = <<>>
  /\ name_again = <<>>
  /\ attempt = 1
  /\ backoff = 2
  /\ responses = <<>>
  /\ sleeps = <<>>
  /\ result = "pending"
  /\ output_files = <<>>
  /\ dl_idx = 0
  /\ dl_year = 0
  /\ dl_all_rows = <<>>
  /\ runs = 0
  /\ had_file = {}
  /\ requested = {}
  /\ raised = {}
  /\ split = <<>>
  /\ fed = 0
  /\ tmin = <<>>
  /\ tmax = <<>>
  /\ station_display_cache = <<>>
  /\ tmin_monthly = <<>>
  /\ tmax_monthly = <<>>
  /\ station_years = <<>>
  /\ station_display_by_id = <<>>
  /\ rows = <<>>
  /\ monthly_avgs = <<>>
  /\ ma_order = <<>>
  /\ idx = 0
  /\ monthly_files = <<>>
  /\ yearly_files = <<>>
  /\ agg_files = <<>>
  /\ agg_writes = 0
  /\ monthly_written = <<>>
  /\ yearly_written = <<>>
  /\ ret = "unset"
  /\ out_files = <<>>

Init == InitAt("split")

\* split_weather_stations.process_files reads one more raw row.
SplitRow(Rows, Max) ==
  /\ pc = "split"
  /\ fed < Max
  /\ \E row \in Rows : split' = split_row(split, row)
  /\ fed' = fed + 1
  /\ UNCHANGED << pc, gather_vars, rank_vars, plog, name_vars, aux_vars >>

\* gather, lines 104-134: every file of split/tmin, in glob's order.
ReadTmin ==
  /\ pc = "split"
  /\ \E names \in Orders(FilesOf(split, "TMIN")) :
       LET st == gather_dir([store |-> tmin, cache |-> station_display_cache,
                             monthly |-> tmin_monthly, years |-> station_years,
                             by_id |-> station_display_by_id],
                            split, names, "TMIN")
       IN  /\ tmin' = st.store
           /\ station_display_cache' = st.cache
           /\ tmin_monthly' = st.monthly
           /\ station_years' = st.years
           /\ station_display_by_id' = st.by_id
  /\ pc' = "read_tmax"
  /\ UNCHANGED << rank_vars, plog, name_vars, aux_vars, split, fed, tmax, tmax_monthly, rows, monthly_avgs, ma_order, idx,
                  monthly_files, yearly_files, agg_files, agg_writes, monthly_written,
                  yearly_written, ret, out_files >>

\* gather, lines 137-165: every file of split/tmax.
ReadTmax ==
  /\ pc = "read_tmax"
  /\ \E names \in Orders(FilesOf(split, "TMAX")) :
       LET st == gather_dir([store |-> tmax, cache |-> station_display_cache,
                             monthly |-> tmax_monthly, years |-> station_years,
                             by_id |-> station_display_by_id],
                            split, names, "TMAX")
       IN  /\ tmax' = st.store
           /\ station_display_cache' = st.cache
           /\ tmax_monthly' = st.monthly
           /\ station_years' = st.years
           /\ station_display_by_id' = st.by_id
  /\ pc' = "rows"
  /\ UNCHANGED << rank_vars, plog, name_vars, aux_vars, split, fed, tmin, tmin_monthly, rows, monthly_avgs, ma_order, idx,
                  monthly_files, yearly_files, agg_files, agg_writes, monthly_written,
                  yearly_written, ret, out_files >>

\* gather, lines 167-198: the period rows; then monthly_avgs, filled in the
\* order the set of station ids iterates in.
ComputeAverages ==
  /\ pc = "rows"
  /\ rows' = period_rows(tmin, tmax)
  /\ \E order \in Orders(StationIdsOf(tmin_monthly, tmax_monthly)) :
       /\ ma_order' = order
       /\ monthly_avgs' = [sid \in Range(order) |->
                             station_monthly_avgs(tmin_monthly, tmax_monthly, sid)]
       /\ pc' = IF order = <<>> THEN "yearly_csv" ELSE "monthly_csv"
  /\ UNCHANGED << rank_vars, plog, name_vars, aux_vars, split, fed, tmin, tmax, station_display_cache, tmin_monthly,
                  tmax_monthly, station_years, station_display_by_id, idx,
                  monthly_files, yearly_files, agg_files, agg_writes, monthly_written,
                  yearly_written, ret, out_files >>

\* gather, lines 202-228: one iteration of the monthly-CSV loop.
WriteMonthlyCsv ==
  /\ pc = "monthly_csv"
  /\ idx < Len(ma_order)
  /\ LET station_id == ma_order[idx + 1]
         years == Get(station_years, station_id, {})
         disp == Get(station_display_by_id, station_id, <<station_id>>)
         written == monthly_report_rows(monthly_avgs[station_id], years, disp)
     IN  IF years = {}
         THEN UNCHANGED << monthly_files, monthly_written >>
         ELSE /\ monthly_files' = Put(monthly_files, ReportFileName(disp), written)
              /\ monthly_written' = Put(monthly_written, station_id, written)
  /\ idx' = idx + 1
  /\ pc' = IF idx + 1 = Len(ma_order) THEN "yearly_csv" ELSE "monthly_csv"
  /\ UNCHANGED << rank_vars, plog, name_vars, aux_vars, split, fed, tmin, tmax, station_display_cache, tmin_monthly,
                  tmax_monthly, station_years, station_display_by_id, rows,
                  monthly_avgs, ma_order, yearly_files, agg_files, agg_writes,
                  yearly_written, ret, out_files >>

\* gather, lines 232-372: the first iteration of the yearly-CSV loop, which
\* writes the station's yearly CSV and both baseline files and returns rows.
WriteYearlyCsv ==
  /\ pc = "yearly_csv"
  /\ ma_order # <<>>
  /\ LET station_id == ma_order[1]
         years == Get(station_years, station_id, {})
         disp == Get(station_display_by_id, station_id, <<station_id>>)
         written == yearly_report_rows(monthly_avgs[station_id], years, disp)
     IN  /\ yearly_files' = Put(yearly_files, ReportFileName(disp), written)
         /\ yearly_written' = Put(yearly_written, station_id, written)
  /\ agg_files' =
       [f \in {"all", "pre2000"} |->
          baseline_rows(monthly_avgs, ma_order, station_display_by_id,
                        IF f = "all" THEN 2025 ELSE 2000)]
  /\ agg_writes' = agg_writes + 1
  /\ ret' = "rows"
  /\ pc' = "write_output"
  /\ UNCHANGED << rank_vars, plog, name_vars, aux_vars, split, fed, tmin, tmax, station_display_cache, tmin_monthly,
                  tmax_monthly, station_years, station_display_by_id, rows,
                  monthly_avgs, ma_order, idx, monthly_files, monthly_written,
                  out_files >>

\* gather with monthly_avgs empty: neither loop body runs, the function
\* ends without a return statement and yields None.
GatherFallsOffEnd ==
  /\ pc = "yearly_csv"
  /\ ma_order = <<>>
  /\ ret' = "None"
  /\ pc' = "write_output"
  /\ UNCHANGED << rank_vars, plog, name_vars, aux_vars, split, fed, tmin, tmax, station_display_cache, tmin_monthly,
                  tmax_monthly, station_years, station_display_by_id, rows,
                  monthly_avgs, ma_order, idx, monthly_files, yearly_files, agg_files,
                  agg_writes, monthly_written, yearly_written, out_files >>

\* main: write_output(gather()).  The header of monthly_avgs.csv is written
\* before the loop over rows; iterating None raises TypeError.
WriteOutput ==
  /\ pc = "write_output"
  /\ IF ret = "None"
     THEN /\ out_files' = Put(out_files, <<"monthly_avgs">>, <<>>)
          /\ pc' = "error"
     ELSE /\ out_files' = write_output_files(rows)
          /\ pc' = "done"
  /\ UNCHANGED << rank_vars, plog, name_vars, aux_vars, split, fed, tmin, tmax, station_display_cache, tmin_monthly,
                  tmax_monthly, station_years, station_display_by_id, rows,
                  monthly_avgs, ma_order, idx, monthly_files, yearly_files, agg_files,
                  agg_writes, monthly_written, yearly_written, ret >>

Gather ==
  \/ ReadTmin
  \/ ReadTmax
  \/ ComputeAverages
  \/ WriteMonthlyCsv
  \/ WriteYearlyCsv
  \/ GatherFallsOffEnd
  \/ WriteOutput

Next ==
  \/ SplitRow(InputRows, MaxRows)
  \/ Gather

Spec == Init /\ [][Next]_vars

\* ---------------------------------------------- calculate_warmest_year.py
\* An average kept exact: sum(vals) / len(vals) is num / den, den > 0.
Rat(num, den) == [num |-> num, den |-> den]
RatLess(a, b) == a.num * b.den < b.num * a.den
RatSub(a, b) == Rat(a.num * b.den - b.num * a.den, a.den * b.den)
RatAdd(a, b) == Rat(a.num * b.den + b.num * a.den, a.den * b.den)
\* f"{x:.2f}" and round(x, 2): x in hundredths.
Hundredths(r) == RoundHalfEven(100 * r.num, r.den)

TARGET_MONTHS == <<10, 11, 12, 1, 2, 3>>
\* MONTH_LABELS.get(m, str(m))
MONTH_LABELS(m) == MonthAbbrs[m]

\* The first occurrence of each element, in order: the keys of a dict in
\* insertion order.
RECURSIVE FirstOccurrences(_)
FirstOccurrences(s) ==
  IF s = <<>> THEN <<>>
  ELSE LET front == FirstOccurrences(SubSeq(s, 1, Len(s) - 1))
       IN  IF s[Len(s)] \in Range(front) THEN front ELSE Append(front, s[Len(s)])

\* process_station_file: the station name and the (year, month) averages,
\* in the order the months first appear in the file.
process_station_file(file_rows, basename) ==
  LET named == SelectSeq(file_rows, LAMBDA r : r.station_name # <<>>)
      good == SelectSeq(file_rows, LAMBDA r : ParsesAsDate(r.date) /\ r.value # None)
      keys == FirstOccurrences([i \in DOMAIN good |-> <<good[i].date.y, good[i].date.m>>])
      vals(k) == LET hit == SelectSeq(good, LAMBDA r : <<r.date.y, r.date.m>> = k)
                 IN  [i \in DOMAIN hit |-> hit[i].value[1]]
  IN  [station_name |-> IF named = <<>> THEN basename ELSE named[1].station_name,
       avgs |-> [i \in DOMAIN keys |->
                   [y |-> keys[i][1], m |-> keys[i][2],
                    avg |-> Rat(SumSeq(vals(keys[i])), Len(vals(keys[i])))]]]

\* items.sort(key=lambda t: t[2], reverse=True)
sort_by_avg_ascending(items) == StableSort(items, LAMBDA a, b : RatLess(a.avg, b.avg))

sort_by_avg_descending(items) == StableSort(items, LAMBDA a, b : RatLess(b.avg, a.avg))

\* write_ranked_output: per target month the 20 highest averages.
write_ranked_output(avgs, station_name) ==
  Concat([i \in DOMAIN TARGET_MONTHS |->
            LET items == sort_by_avg_descending(
                           SelectSeq(avgs, LAMBDA a : a.m = TARGET_MONTHS[i]))
                top == SubSeq(items, 1, IF Len(items) < 20 THEN Len(items) ELSE 20)
            IN  [j \in DOMAIN top |->
                   [year |-> top[j].y, month |-> MONTH_LABELS(top[j].m),
                    stationName |-> station_name, value |-> Hundredths(top[j].avg)]]])

check_months == <<10, 11, 12, 1>>
target_year_for_month(m) == IF m = 1 THEN 2026 ELSE 2025

\* write_year_tiers, one pass of the loop over check_months: the row of m.
tier_row_zero_when_missing(avgs, station_name, m) ==
  LET items == sort_by_avg_descending(SelectSeq(avgs, LAMBDA a : a.m = m))
      hits == {i \in DOMAIN items : items[i].y = target_year_for_month(m)}
  IN  [year |-> target_year_for_month(m), month |-> MONTH_LABELS(m),
       station |-> station_name,
       ranking |-> IF hits = {} THEN Some(0) ELSE Some(MinOf(hits)),
       degreesBelowTop |->
         IF hits = {} THEN Some(0)
         ELSE Some(Hundredths(RatSub(items[1].avg, items[MinOf(hits)].avg)))]

tier_row(avgs, station_name, m) ==
  LET items == sort_by_avg_descending(SelectSeq(avgs, LAMBDA a : a.m = m))
      hits == {i \in DOMAIN items : items[i].y = target_year_for_month(m)}
  IN  [year |-> target_year_for_month(m), month |-> MONTH_LABELS(m),
       station |-> station_name,
       ranking |-> IF hits = {} THEN None ELSE Some(MinOf(hits)),
       degreesBelowTop |->
         IF hits = {} THEN None
         ELSE Some(Hundredths(RatSub(items[1].avg, items[MinOf(hits)].avg)))]

write_year_tiers(avgs, station_name) ==
  [i \in DOMAIN check_months |-> tier_row(avgs, station_name, check_months[i])]

\* compute_winter_avgs: the winters with Nov, Dec and Jan all present, in
\* ascending year order, each with the mean of the three monthly averages.
compute_winter_avgs(avgs) ==
  LET has(y, m) == \E i \in DOMAIN avgs : avgs[i].y = y /\ avgs[i].m = m
      at(y, m) == avgs[CHOOSE i \in DOMAIN avgs : avgs[i].y = y /\ avgs[i].m = m].avg
      candidate_years ==
        {avgs[i].y : i \in {j \in DOMAIN avgs : avgs[j].m \in {11, 12}}}
        \cup {avgs[i].y - 1 : i \in {j \in DOMAIN avgs : avgs[j].m = 1}}
      winters == SelectSeq(SortedInts(candidate_years),
                           LAMBDA w : has(w, 11) /\ has(w, 12) /\ has(w + 1, 1))
      total(w) == RatAdd(RatAdd(at(w, 11), at(w, 12)), at(w + 1, 1))
  IN  [i \in DOMAIN winters |->
         [y |-> winters[i], avg |-> Rat(total(winters[i]).num, 3 * total(winters[i]).den)]]

\* sorted(os.listdir(in_dir)): the files of a directory by name.
sorted_files(files, kind) ==
  StableSort(SeqOfSet(FilesOf(files, kind)), LAMBDA a, b : StrLess(a[2], b[2]))

\* process_directory: the top-20 and the year-tier file of every station file.
process_directory(files, kind) ==
  [ranked |-> [f \in FilesOf(files, kind) |->
                 LET r == process_station_file(files[f], f[2])
                 IN  write_ranked_output(r.avgs, r.station_name)],
   tiers |-> [f \in FilesOf(files, kind) |->
                LET r == process_station_file(files[f], f[2])
                IN  write_year_tiers(r.avgs, r.station_name)]]

\* generate_analysis_for_dir: the per-station series files and the rows of
\* the cross-station ranking file.
series_rows(file_rows, basename) ==
  LET r == process_station_file(file_rows, basename)
      sorted_items == sort_by_avg_descending(compute_winter_avgs(r.avgs))
  IN  [i \in DOMAIN sorted_items |->
         [year |-> sorted_items[i].y, station |-> r.station_name,
          avg |-> Hundredths(sorted_items[i].avg)]]

ranking_rows_rank_descending(files, kind) ==
  LET names == sorted_files(files, kind)
      of_file(f) ==
        LET r == process_station_file(files[f], f[2])
            sorted_items == sort_by_avg_descending(compute_winter_avgs(r.avgs))
        IN  [i \in DOMAIN sorted_items |->
               [year |-> sorted_items[i].y, station |-> r.station_name, ranking |-> i,
                degreesBelowTop |->
                  Hundredths(RatSub(sorted_items[1].avg, sorted_items[i].avg))]]
      all_rows == Concat([i \in DOMAIN names |-> of_file(names[i])])
      less(a, b) ==
        \/ StrLess(LowerStr(a.station), LowerStr(b.station))
        \/ LowerStr(a.station) = LowerStr(b.station) /\ a.ranking > b.ranking
  IN  StableSort(all_rows, less)

ranking_rows(files, kind) ==
  LET names == sorted_files(files, kind)
      of_file(f) ==
        LET r == process_station_file(files[f], f[2])
            sorted_items == sort_by_avg_descending(compute_winter_avgs(r.avgs))
        IN  [i \in DOMAIN sorted_items |->
               [year |-> sorted_items[i].y, station |-> r.station_name, ranking |-> i,
                degreesBelowTop |->
                  Hundredths(RatSub(sorted_items[1].avg, sorted_items[i].avg))]]
      all_rows == Concat([i \in DOMAIN names |-> of_file(names[i])])
      less(a, b) ==
        \/ StrLess(LowerStr(a.station), LowerStr(b.station))
        \/ LowerStr(a.station) = LowerStr(b.station) /\ a.ranking < b.ranking
  IN  StableSort(all_rows, less)

\* main, lines 202-210: process_directory on split/tmax, then on split/tmin.
ProcessTmaxDir ==
  /\ pc \in {"split", "done"}
  /\ LET r == process_directory(split, "TMAX")
     IN  /\ ranked_files' = r.ranked
         /\ tier_files' = r.tiers
  /\ pc' = "rank_tmin"
  /\ UNCHANGED << split, fed, gather_vars, series_files, ranking_files, plog, name_vars, aux_vars >>

ProcessTminDir ==
  /\ pc = "rank_tmin"
  /\ LET r == process_directory(split, "TMIN")
     IN  /\ ranked_files' = [f \in (DOMAIN ranked_files) \cup (DOMAIN r.ranked) |->
                               IF f \in DOMAIN r.ranked THEN r.ranked[f] ELSE ranked_files[f]]
         /\ tier_files' = [f \in (DOMAIN tier_files) \cup (DOMAIN r.tiers) |->
                             IF f \in DOMAIN r.tiers THEN r.tiers[f] ELSE tier_files[f]]
  /\ pc' = "analysis_high"
  /\ UNCHANGED << split, fed, gather_vars, series_files, ranking_files, plog, name_vars, aux_vars >>

\* main, lines 212-215: generate_analysis_for_dir on split/tmax, then tmin.
AnalysisHigh ==
  /\ pc = "analysis_high"
  /\ series_files' = [f \in FilesOf(split, "TMAX") |-> series_rows(split[f], f[2])]
  /\ ranking_files' = Put(ranking_files, "high", ranking_rows(split, "TMAX"))
  /\ pc' = "analysis_low"
  /\ UNCHANGED << split, fed, gather_vars, ranked_files, tier_files, plog, name_vars, aux_vars >>

AnalysisLow ==
  /\ pc = "analysis_low"
  /\ series_files' = [f \in (DOMAIN series_files) \cup FilesOf(split, "TMIN") |->
                        IF f \in FilesOf(split, "TMIN")
                        THEN series_rows(split[f], f[2]) ELSE series_files[f]]
  /\ ranking_files' = Put(ranking_files, "low", ranking_rows(split, "TMIN"))
  /\ pc' = "rank_done"
  /\ UNCHANGED << split, fed, gather_vars, ranked_files, tier_files, plog, name_vars, aux_vars >>

Ranking ==
  \/ ProcessTmaxDir
  \/ ProcessTminDir
  \/ AnalysisHigh
  \/ AnalysisLow

\* The year-tier specification: one station file of highs around the
\* target years, and the ranking script run on it.
TierDates ==
  { Date(2023, 10, 15), Date(2024, 10, 15), Date(2025, 10, 15),
    Date(2025, 1, 15), Date(2026, 1, 15) }
TierTemps == {45, 48, 50}
TierRows == {Row("GHCND:1", NameBillingsAp, dt, "TMAX", Some(v)) : dt \in TierDates, v \in TierTemps}

NextTiers ==
  \/ SplitRow(TierRows, MaxObs)
  \/ Ranking

SpecTiers == Init /\ [][NextTiers]_vars

\* The period-classification specification: add_record_for_periods called
\* with dates on and next to the two cutoffs.
CutoffDates ==
  { Date(1999, 12, 31), Date(2000, 9, 30), Date(2000, 10, 1), Date(2000, 10, 2),
    Date(2025, 9, 30), Date(2025, 10, 1), Date(2025, 10, 2), Date(2026, 1, 1) }

AddRecord ==
  /\ pc = "periods"
  /\ Len(plog) < MaxRecs
  /\ \E name \in {NameBillingsAp, NameBillingsLogan}, d \in CutoffDates, val \in {20, 25} :
       LET r == add_record_for_periods(station_display_cache, tmin, name, d, val)
       IN  /\ tmin' = r.store
           /\ station_display_cache' = r.cache
           /\ plog' = Append(plog, [station_name |-> name, d |-> d, val |-> val])
  /\ UNCHANGED << pc, split, fed, tmax, tmin_monthly, tmax_monthly, station_years,
                  station_display_by_id, rows, monthly_avgs, ma_order, idx, monthly_files,
                  yearly_files, agg_files, agg_writes, monthly_written, yearly_written,
                  ret, out_files, rank_vars, name_vars, aux_vars >>

InitPeriods == InitAt("periods")
NextPeriods == AddRecord
SpecPeriods == InitPeriods /\ [][NextPeriods]_vars

\* The month-filter specification: one station's highs, 20 in Nov, Dec and
\* Jan and 25 in Oct, Feb, Mar and Jun, run through both scripts.
FilterRows ==
  { Row("GHCND:1", NameBillingsAp, dt, "TMAX", Some(20)) : dt \in SeasonDates }
  \cup { Row("GHCND:1", NameBillingsAp, dt, "TMAX", Some(25)) :
           dt \in {Date(1999, 10, 15), Date(2000, 2, 15), Date(2000, 3, 15),
                   Date(2000, 6, 15)} }

NextFilter ==
  \/ SplitRow(FilterRows, MaxFilterRows)
  \/ Gather
  \/ Ranking

SpecFilter == Init /\ [][NextFilter]_vars

\* The baseline specification: seasons on both sides of 2000 and of 2025
\* (Jan 2000 is of season 1999, Jan 2025 of season 2024), two stations.
BaselineDates ==
  {Date(2000, 1, 15), Date(2000, 11, 15), Date(2000, 12, 15), Date(2025, 1, 15),
   Date(2025, 11, 15)}

BaselineRows ==
  { Row("GHCND:1", NameBillingsAp, dt, "TMAX", Some(v)) : dt \in BaselineDates, v \in {20, 25} }
  \cup { Row("GHCND:1", NameBillingsAp, Date(2000, 1, 15), "TMIN", Some(20)) }
  \cup { Row("GHCND:3", NameMilesCity, dt, "TMAX", Some(20)) :
           dt \in {Date(2000, 11, 15), Date(2025, 1, 15)} }

NextBaseline ==
  \/ SplitRow(BaselineRows, MaxBaseRows)
  \/ Gather

SpecBaseline == Init /\ [][NextBaseline]_vars

\* The display-name specification: normalize_display_name applied to a raw
\* station name, then to its own result.  A raw name is a string of words
\* and separators; two words never touch without a separator.
NameTokens == {"miles", "city", "CITY", "Great", "FALLS", "Billings", " ", "-", ","}

RECURSIVE TokenStrings(_)
TokenStrings(n) ==
  IF n = 0 THEN {<<>>}
  ELSE TokenStrings(n - 1)
       \cup {Append(t, k) : t \in {u \in TokenStrings(n - 1) : Len(u) = n - 1}, k \in NameTokens}

RawNames ==
  {n \in TokenStrings(MaxTokens) :
     \A i \in 1..(Len(n) - 1) : n[i] \in {" ", "-", ","} \/ n[i + 1] \in {" ", "-", ","}}

NormalizeName ==
  /\ pc = "name"
  /\ \E n \in RawNames :
       /\ name_in' = n
       /\ name_out' = normalize_display_name(n)
  /\ pc' = "name_again"
  /\ UNCHANGED << split, fed, gather_vars, rank_vars, plog, aux_vars, name_again >>

NormalizeAgain ==
  /\ pc = "name_again"
  /\ name_again' = normalize_display_name(name_out)
  /\ pc' = "name_done"
  /\ UNCHANGED << split, fed, gather_vars, rank_vars, plog, aux_vars, name_in, name_out >>

InitNames == InitAt("name")

NextNames ==
  \/ NormalizeName
  \/ NormalizeAgain

SpecNames == InitNames /\ [][NextNames]_vars

\* The monthly-average specification: one station's highs of 24, 25 and 26
\* in two months and lows of 24 and 25 in one, so that means end in .5.
MonthlyRows ==
  { Row("GHCND:1", NameBillingsAp, dt, "TMAX", Some(v)) :
      dt \in {Date(1999, 11, 15), Date(1999, 12, 15)}, v \in {24, 25, 26} }
  \cup { Row("GHCND:1", NameBillingsAp, Date(1999, 11, 15), "TMIN", Some(v)) : v \in {24, 25} }

NextMonthly ==
  \/ SplitRow(MonthlyRows, MaxMonthRows)
  \/ Gather

SpecMonthly == Init /\ [][NextMonthly]_vars

\* ------------------------------------------------------- get_stations.py
\* noaa_get: max_attempts = 5, the wait added after an error, and the
\* statuses retried in place.
max_attempts == 5
ERROR_BACKOFF_EXTRA == 5
RetryableStatuses == {429, 500, 502, 503, 504}

\* What one requests.get comes back with: a status code, or 0 when
\* requests.get itself raises a RequestException (no response).
NoResponse == 0
Responses == {NoResponse, 200, 204, 404, 429, 503}

\* response.raise_for_status() raises HTTPError for a 4xx or 5xx status;
\* HTTPError is a RequestException.
RaisesForStatus(status) == status >= 400

\* except requests.exceptions.RequestException (lines 67-74): wait and go on
\* to the next attempt, or re-raise on the last one.
OnRequestException ==
  IF attempt < max_attempts
  THEN /\ sleeps' = Append(sleeps, backoff + ERROR_BACKOFF_EXTRA)
       /\ backoff' = backoff * 2
       /\ attempt' = attempt + 1
       /\ result' = "pending"
  ELSE /\ result' = "raised"
       /\ UNCHANGED << sleeps, backoff, attempt >>

\* One pass of the loop `for attempt in range(1, max_attempts + 1)`.
Request ==
  /\ pc = "noaa_get"
  /\ result = "pending"
  /\ \E status \in Responses :
       /\ responses' = Append(responses, status)
       /\ IF status = NoResponse THEN OnRequestException
          ELSE IF status = 200
            THEN /\ result' = "returned"
                 /\ UNCHANGED << sleeps, backoff, attempt >>
          ELSE IF status \in RetryableStatuses /\ attempt < max_attempts
            THEN /\ sleeps' = Append(sleeps, backoff + ERROR_BACKOFF_EXTRA)
                 /\ backoff' = backoff * 2
                 /\ attempt' = attempt + 1
                 /\ result' = "pending"
          ELSE IF RaisesForStatus(status) THEN OnRequestException
          ELSE IF attempt < max_attempts
            THEN /\ attempt' = attempt + 1
                 /\ result' = "pending"
                 /\ UNCHANGED << sleeps, backoff >>
          ELSE /\ result' = "raised"
               /\ UNCHANGED << sleeps, backoff, attempt >>
  /\ UNCHANGED << pc, split, fed, gather_vars, rank_vars, plog, name_vars, dl_vars >>

InitRequest == InitAt("noaa_get")
NextRequest == Request
SpecRequest == InitRequest /\ [][NextRequest]_vars

\* The winter-ranking specification: the splitter reads whole winters, the
\* Nov, Dec and Jan rows of one station with one high each, then the
\* ranking script runs.
WinterBlocks ==
  { << Row(st[1], st[2], Date(sy, 11, 15), "TMAX", Some(v)),
       Row(st[1], st[2], Date(sy, 12, 15), "TMAX", Some(v)),
       Row(st[1], st[2], Date(sy + 1, 1, 15), "TMAX", Some(v + 1)) >> :
      st \in {<<"GHCND:1", NameBillingsAp>>, <<"GHCND:3", NameMilesCity>>},
      sy \in {1999, 2000, 2001}, v \in {20, 25, 30} }

\* split_weather_stations.process_files reads the three rows of a winter.
SplitWinter ==
  /\ pc = "split"
  /\ fed < MaxWinters
  /\ \E b \in WinterBlocks :
       split' = split_row(split_row(split_row(split, b[1]), b[2]), b[3])
  /\ fed' = fed + 1
  /\ UNCHANGED << pc, gather_vars, rank_vars, plog, name_vars, aux_vars >>

NextWinters ==
  \/ SplitWinter
  \/ Ranking

SpecWinters == Init /\ [][NextWinters]_vars

\* get_stations.main: the stations of airport-list.txt (mindate and maxdate
\* by their years) and what the server holds for a station and year; the
\* second station has no data at all.
StationList ==
  << [id |-> "GHCND:1", mindate |-> 2000, maxdate |-> 2001],
     [id |-> "GHCND:2", mindate |-> 2000, maxdate |-> 2000],
     [id |-> "GHCND:3", mindate |-> 2000, maxdate |-> 2001] >>

ServerRecords(station_id, year) ==
  IF station_id = "GHCND:2" \/ (station_id = "GHCND:3" /\ year = 2000) THEN <<>>
  ELSE << [station_id |-> station_id, date |-> Date(year, 1, 15)],
          [station_id |-> station_id, date |-> Date(year, 11, 15)] >>

\* os.path.exists(output_file)
already_processed_never(files, station_id) == FALSE

already_processed(files, station_id) == station_id \in DOMAIN files

\* The script is started: main up to the loop over the stations.
StartRun ==
  /\ pc \in {"download", "stopped", "download_done"}
  /\ runs < MaxRuns
  /\ runs' = runs + 1
  /\ dl_idx' = 1
  /\ dl_year' = 0
  /\ dl_all_rows' = <<>>
  /\ had_file' = DOMAIN output_files
  /\ requested' = {}
  /\ raised' = {}
  /\ pc' = "running"
  /\ UNCHANGED << output_files, split, fed, gather_vars, rank_vars, plog, name_vars, http_vars >>

\* Lines 142-162: the top of the loop body, skip or begin the station.
BeginStation ==
  /\ pc = "running"
  /\ dl_idx <= Len(StationList)
  /\ dl_year = 0
  /\ IF already_processed(output_files, StationList[dl_idx].id)
     THEN /\ dl_idx' = dl_idx + 1
          /\ UNCHANGED << dl_year, dl_all_rows >>
     ELSE /\ dl_year' = StationList[dl_idx].mindate
          /\ dl_all_rows' = <<>>
          /\ UNCHANGED dl_idx
  /\ UNCHANGED << pc, output_files, runs, had_file, requested, raised, split, fed,
                  gather_vars, rank_vars, plog, name_vars, http_vars >>

\* Lines 167-194: one year, both fetch_station_season calls; either the
\* rows are added or a call raises and the handler of lines 204-207 goes on
\* to the next station.
FetchYear ==
  /\ pc = "running"
  /\ dl_idx <= Len(StationList)
  /\ dl_year # 0
  /\ dl_year <= StationList[dl_idx].maxdate
  /\ requested' = requested \cup {StationList[dl_idx].id}
  /\ \E ok \in BOOLEAN :
       IF ok
       THEN /\ dl_all_rows' = dl_all_rows \o ServerRecords(StationList[dl_idx].id, dl_year)
            /\ dl_year' = dl_year + 1
            /\ UNCHANGED << dl_idx, raised >>
       ELSE /\ raised' = raised \cup {StationList[dl_idx].id}
            /\ dl_idx' = dl_idx + 1
            /\ dl_year' = 0
            /\ dl_all_rows' = <<>>
  /\ UNCHANGED << pc, output_files, runs, had_file, split, fed, gather_vars, rank_vars,
                  plog, name_vars, http_vars >>

\* Lines 196-202: every year is fetched; save the rows if there are any.
SaveStation ==
  /\ pc = "running"
  /\ dl_idx <= Len(StationList)
  /\ dl_year > StationList[dl_idx].maxdate
  /\ output_files' = IF dl_all_rows # <<>>
                     THEN Put(output_files, StationList[dl_idx].id, dl_all_rows)
                     ELSE output_files
  /\ dl_idx' = dl_idx + 1
  /\ dl_year' = 0
  /\ dl_all_rows' = <<>>
  /\ UNCHANGED << pc, runs, had_file, requested, raised, split, fed, gather_vars,
                  rank_vars, plog, name_vars, http_vars >>

\* The loop is over.
FinishRun ==
  /\ pc = "running"
  /\ dl_idx > Len(StationList)
  /\ pc' = "download_done"
  /\ UNCHANGED << dl_vars, split, fed, gather_vars, rank_vars, plog, name_vars, http_vars >>

\* The script is stopped between two steps; what it held in memory is gone.
StopRun ==
  /\ pc = "running"
  /\ pc' = "stopped"
  /\ dl_all_rows' = <<>>
  /\ UNCHANGED << output_files, dl_idx, dl_year, runs, had_file, requested, raised, split,
                  fed, gather_vars, rank_vars, plog, name_vars, http_vars >>

InitDownload == InitAt("download")

NextDownload ==
  \/ StartRun
  \/ BeginStation
  \/ FetchYear
  \/ SaveStation
  \/ FinishRun
  \/ StopRun

SpecDownload == InitDownload /\ [][NextDownload]_vars

\* ------------------------------------------------- the input, as observed
\* What the claims are stated against: the valid observations held by the
\* split files, read off the input and not off gather's own maps.
AllRows ==
  UNION { {split[f][i] : i \in DOMAIN split[f]} : f \in DOMAIN split }

Observations ==
  {r \in AllRows : ParsesAsDate(r.date) /\ r.value # None /\ r.datatype \in {"TMIN", "TMAX"}}

ObservedStations == {r.station_id : r \in Observations}
ObservedYears(sid) == {r.date.y : r \in {o \in Observations : o.station_id = sid}}

\* The values observed for (station, year, month, kind), file by file.
ObservedValues(sid, y, m, kind) ==
  LET files == SeqOfSet(FilesOf(split, kind))
      pick(f) ==
        LET hit == SelectSeq(split[f],
                             LAMBDA r : /\ ParsesAsDate(r.date) /\ r.value # None
                                        /\ r.datatype = kind /\ r.station_id = sid
                                        /\ r.date.y = y /\ r.date.m = m)
        IN  [i \in DOMAIN hit |-> hit[i].value[1]]
  IN  Concat([i \in DOMAIN files |-> pick(files[i])])

ExpectedMonthly(sid, y, m, kind) == RoundedMean(ObservedValues(sid, y, m, kind))

\* The rounded mean of the rounded monthly averages of Nov sy, Dec sy and
\* Jan sy+1 that exist.
ExpectedSeasonal(sid, sy, kind) ==
  RoundedMean(ExpectedMonthly(sid, sy, 11, kind) \o ExpectedMonthly(sid, sy, 12, kind)
              \o ExpectedMonthly(sid, sy + 1, 1, kind))

HasSeasonObservation(sid) ==
  \E r \in Observations : r.station_id = sid /\ r.date.m \in {11, 12, 1}

GatherReturned == pc \in {"write_output", "done", "error"}

\* ------------------------------------------------------------------ claims
\* C1: after gather() has run, every station id with at least one Nov, Dec
\* or Jan observation has had its yearly report written, and the two
\* baseline reports were written exactly once.
C1_EveryStationHasYearlyReport ==
  GatherReturned =>
    /\ \A sid \in ObservedStations :
         HasSeasonObservation(sid) => sid \in DOMAIN yearly_written
    /\ ObservedStations # {} => agg_writes = 1

\* C2: in the yearly report, every station and every season year S not
\* before the station's earliest calendar year, with a value in at least one
\* of Nov S, Dec S, Jan S+1, has a row whose averages are the rounded means
\* of the rounded monthly averages that exist.
C2_SeasonalAverageOfAvailableMonths ==
  GatherReturned =>
    \A sid \in ObservedStations :
      \A sy \in {y - 1 : y \in ObservedYears(sid)} \cup ObservedYears(sid) :
        ( /\ sy >= MinOf(ObservedYears(sid))
          /\ \/ ExpectedSeasonal(sid, sy, "TMAX") # None
             \/ ExpectedSeasonal(sid, sy, "TMIN") # None )
        => /\ sid \in DOMAIN yearly_written
           /\ \E i \in DOMAIN yearly_written[sid] :
                /\ yearly_written[sid][i].year = sy
                /\ yearly_written[sid][i].avgMaxTemp = ExpectedSeasonal(sid, sy, "TMAX")
                /\ yearly_written[sid][i].avgMinTemp = ExpectedSeasonal(sid, sy, "TMIN")

\* The season year of a row of a monthly report, from its year and month.
RowSeasonYear(row) == IF row.month \in {"Nov", "Dec"} THEN row.year ELSE row.year - 1

\* C3: no row written to a station's monthly or yearly report belongs to a
\* season year before the station's earliest observed calendar year.
C3_NoRowBeforeEarliestYear ==
  /\ \A sid \in DOMAIN monthly_written :
       \A i \in DOMAIN monthly_written[sid] :
         RowSeasonYear(monthly_written[sid][i]) >= MinOf(ObservedYears(sid))
  /\ \A sid \in DOMAIN yearly_written :
       \A i \in DOMAIN yearly_written[sid] :
         yearly_written[sid][i].year >= MinOf(ObservedYears(sid))

\* C3 witness: a station whose earliest year is 2000, with a January 2000
\* observation, has had both reports written.
C3_Witness ==
  \E sid \in (DOMAIN monthly_written) \cap (DOMAIN yearly_written) :
    /\ MinOf(ObservedYears(sid)) = 2000
    /\ \E r \in Observations : r.station_id = sid /\ r.date.y = 2000 /\ r.date.m = 1

\* The report files gather leaves behind when monthly_avgs iterates in the
\* given order: the monthly CSVs, the yearly CSVs and the baseline files.
RECURSIVE MonthlyFilesUnder(_, _)
MonthlyFilesUnder(files, order) ==
  IF order = <<>> THEN files
  ELSE LET disp == station_display_by_id[Head(order)]
       IN  MonthlyFilesUnder(
             Put(files, ReportFileName(disp),
                 monthly_report_rows(monthly_avgs[Head(order)],
                                     station_years[Head(order)], disp)),
             Tail(order))

ReportsUnder(order) ==
  IF order = <<>> THEN << <<>>, <<>>, <<>> >>
  ELSE LET disp == station_display_by_id[order[1]]
       IN  << MonthlyFilesUnder(<<>>, order),
              Put(<<>>, ReportFileName(disp),
                  yearly_report_rows(monthly_avgs[order[1]], station_years[order[1]], disp)),
              [f \in {"all", "pre2000"} |->
                 baseline_rows(monthly_avgs, order, station_display_by_id,
                               IF f = "all" THEN 2025 ELSE 2000)] >>

\* C8: the report files are a function of the input alone: whatever order
\* the station ids were iterated in, the files are those of one fixed order.
C8_ReportsIndependentOfIterationOrder ==
  GatherReturned =>
    << monthly_files, yearly_files, agg_files >>
      = ReportsUnder(SeqOfSet(DOMAIN monthly_avgs))

\* C9: the run of gather followed by write_output never ends in an error.
C9_RunNeverFails == pc # "error"

\* The rows of the monthly-by-period report for one display name, month and
\* period, and the values of every station id with that display name.
MergedValues(disp, m, period, kind) ==
  LET obs == SeqOfSet({r \in Observations :
                         /\ normalize_display_name(r.station_name) = disp
                         /\ r.date.m = m /\ r.datatype = kind
                         /\ period \in Range(PeriodsOf(r.date))})
  IN  [i \in DOMAIN obs |-> obs[i].value[1]]

\* C10: the per-station monthly and yearly reports are keyed by station id:
\* once the loops are over, the rows of every station id are in the report
\* file of its display name, also when another id has the same display name;
\* the monthly-by-period report has one row per display name.
C10_EveryStationIdKeepsItsRows ==
  /\ pc \in {"yearly_csv", "write_output", "done", "error"} =>
       \A sid \in DOMAIN monthly_avgs :
         LET disp == station_display_by_id[sid]
         IN  Range(monthly_report_rows(monthly_avgs[sid], station_years[sid], disp))
               \subseteq Range(Get(monthly_files, ReportFileName(disp), <<>>))
  /\ GatherReturned =>
       \A sid \in DOMAIN monthly_avgs :
         LET disp == station_display_by_id[sid]
         IN  Range(yearly_report_rows(monthly_avgs[sid], station_years[sid], disp))
               \subseteq Range(Get(yearly_files, ReportFileName(disp), <<>>))
  /\ pc = "done" =>
       \A i \in DOMAIN rows :
         /\ rows[i].avg_min
              = RoundedMean(MergedValues(rows[i].disp, rows[i].m, rows[i].period, "TMIN"))
         /\ rows[i].avg_max
              = RoundedMean(MergedValues(rows[i].disp, rows[i].m, rows[i].period, "TMAX"))
         /\ \A j \in DOMAIN rows :
              (rows[i].disp = rows[j].disp /\ rows[i].m = rows[j].m
                 /\ rows[i].period = rows[j].period) => i = j

\* The values a station file holds for (year, month), and their mean.
FileValues(f, y, m) ==
  LET hit == SelectSeq(split[f], LAMBDA r : /\ ParsesAsDate(r.date) /\ r.value # None
                                            /\ r.date.y = y /\ r.date.m = m)
  IN  [i \in DOMAIN hit |-> hit[i].value[1]]

FileYears(f, m) == {r.date.y : r \in {o \in Observations : FileValues(f, o.date.y, m) # <<>>}}
FileMean(f, y, m) == Rat(SumSeq(FileValues(f, y, m)), Len(FileValues(f, y, m)))

\* The month a row label stands for, and the target year of a check month.
MonthOfLabel(label) == CHOOSE m \in 1..12 : MonthAbbrs[m] = label
TargetYear(m) == IF m \in {10, 11, 12} THEN 2025 ELSE 2026

\* C5: for each check month whose target year has data, the year-tier row
\* carries the target year's position among the years with data for the
\* month in descending order of mean (1 + the years with a higher mean, up
\* to the years with a mean at least as high), and degreesBelowTop is the
\* highest mean minus the target year's mean.
C5_TierRankAndDegrees ==
  \A f \in DOMAIN tier_files :
    \A m \in {10, 11, 12, 1} :
      TargetYear(m) \in FileYears(f, m) =>
        \E i \in DOMAIN tier_files[f] :
          LET row == tier_files[f][i]
              mine == FileMean(f, TargetYear(m), m)
              higher == {y \in FileYears(f, m) : RatLess(mine, FileMean(f, y, m))}
              as_high == {y \in FileYears(f, m) : ~RatLess(FileMean(f, y, m), mine)}
              top == CHOOSE y \in FileYears(f, m) :
                       \A z \in FileYears(f, m) : ~RatLess(FileMean(f, y, m), FileMean(f, z, m))
          IN  /\ row.month = MonthAbbrs[m]
              /\ row.year = TargetYear(m)
              /\ row.ranking # None
              /\ row.ranking[1] >= Cardinality(higher) + 1
              /\ row.ranking[1] <= Cardinality(as_high)
              /\ row.degreesBelowTop = Some(Hundredths(RatSub(FileMean(f, top, m), mine)))

\* C5 witness: October means 50, 45 and 48 for 2023, 2024 and 2025 give the
\* October row rank 2 and 2.00 degrees below the top.
C5_Witness ==
  \E f \in DOMAIN tier_files :
    /\ FileValues(f, 2023, 10) = <<50>>
    /\ FileValues(f, 2024, 10) = <<45>>
    /\ FileValues(f, 2025, 10) = <<48>>
    /\ tier_files[f][1].ranking = Some(2)
    /\ tier_files[f][1].degreesBelowTop = Some(200)

\* C6: every year-tier file has exactly four rows, for Oct, Nov, Dec and Jan
\* in this order, and a row whose target year has no data for its month has
\* a blank rank and blank degreesBelowTop.
C6_BlankWhenTargetYearMissing ==
  \A f \in DOMAIN tier_files :
    /\ [i \in DOMAIN tier_files[f] |-> tier_files[f][i].month] = <<"Oct", "Nov", "Dec", "Jan">>
    /\ \A i \in DOMAIN tier_files[f] :
         LET row == tier_files[f][i]
         IN  TargetYear(MonthOfLabel(row.month)) \notin FileYears(f, MonthOfLabel(row.month))
               => row.ranking = None /\ row.degreesBelowTop = None

\* C6 witness: a file with October data for another year but none for
\* 2025, and no November data at all, has had its tier rows written.
C6_Witness ==
  \E f \in DOMAIN tier_files :
    /\ FileYears(f, 10) # {}
    /\ 2025 \notin FileYears(f, 10)
    /\ FileYears(f, 11) = {}
    /\ tier_files[f][1].ranking = None
    /\ tier_files[f][2].ranking = None

\* The period set the claim gives a date: all and <2000 before 2000-10-01,
\* all alone from then to before 2025-10-01, 2026 alone from 2025-10-01 on.
ClaimedPeriods(d) ==
  IF DateLess(d, Date(2000, 10, 1)) THEN {"all", "<2000"}
  ELSE IF DateLess(d, Date(2025, 10, 1)) THEN {"all"}
  ELSE {"2026"}

\* The values of the calls so far that belong under (disp, m, period).
LoggedValues(disp, m, period) ==
  LET hit == SelectSeq(plog, LAMBDA c : /\ normalize_display_name(c.station_name) = disp
                                        /\ c.d.m = m /\ period \in ClaimedPeriods(c.d))
  IN  [i \in DOMAIN hit |-> hit[i].val]

\* C4: the store holds, under every (display name, month, period), exactly
\* the values of the dates whose period set has that period: no key holds
\* anything else and no other key exists; so nothing is under both 2026 and
\* all, and whatever is under <2000 is under all.
C4_PeriodsOfEveryDate ==
  /\ \A k \in DOMAIN tmin : tmin[k] # <<>> /\ tmin[k] = LoggedValues(k[1], k[2], k[3])
  /\ \A i \in DOMAIN plog :
       \A p \in ClaimedPeriods(plog[i].d) :
         <<normalize_display_name(plog[i].station_name), plog[i].d.m, p>> \in DOMAIN tmin
  /\ \A k \in DOMAIN tmin :
       k[3] = "<2000" =>
         /\ <<k[1], k[2], "all">> \in DOMAIN tmin
         /\ Range(tmin[k]) \subseteq Range(tmin[<<k[1], k[2], "all">>])

\* C4 witness: a date exactly on each cutoff has been classified.
C4_Witness ==
  /\ pc = "periods"
  /\ \E i, j \in DOMAIN plog : plog[i].d = Date(2025, 10, 1) /\ plog[j].d = Date(2000, 10, 1)

\* The rounded mean of a station's rounded Nov, Dec and Jan monthly averages
\* over the season years before limit.
ExpectedBaseline(sid, limit, kind) ==
  LET yms == StableSort(
               SeqOfSet({<<r.date.y, r.date.m>> :
                           r \in {o \in Observations :
                                    /\ o.station_id = sid
                                    /\ o.date.m \in {11, 12, 1}
                                    /\ (IF o.date.m = 1 THEN o.date.y - 1 ELSE o.date.y) < limit}}),
               LAMBDA a, b : a[1] < b[1] \/ (a[1] = b[1] /\ a[2] < b[2]))
  IN  RoundedMean(Concat([i \in DOMAIN yms |-> ExpectedMonthly(sid, yms[i][1], yms[i][2], kind)]))

\* C7: no report holds an observation of a month outside its winter-month
\* set: the monthly-by-period, top-20 and year-tier rows are of Oct-Mar months
\* (year tiers: Oct-Jan) and carry that month's values only; the per-station
\* monthly rows are of Nov-Feb months; the yearly, baseline and seasonal
\* ranking values are built from the Nov, Dec and Jan observations alone.
C7_NoRowFromOutsideTheWinterMonths ==
  /\ \A i \in DOMAIN rows :
       /\ rows[i].m \in {10, 11, 12, 1, 2, 3}
       /\ rows[i].avg_max
            = RoundedMean(MergedValues(rows[i].disp, rows[i].m, rows[i].period, "TMAX"))
       /\ rows[i].avg_min
            = RoundedMean(MergedValues(rows[i].disp, rows[i].m, rows[i].period, "TMIN"))
  /\ \A f \in DOMAIN out_files : \A i \in DOMAIN out_files[f] :
       out_files[f][i].month \in {"Oct", "Nov", "Dec", "Jan", "Feb", "Mar"}
  /\ \A sid \in DOMAIN monthly_written : \A i \in DOMAIN monthly_written[sid] :
       LET row == monthly_written[sid][i]
       IN  /\ row.month \in {"Nov", "Dec", "Jan", "Feb"}
           /\ row.avgMaxTemp = ExpectedMonthly(sid, row.year, MonthOfLabel(row.month), "TMAX")
           /\ row.avgMinTemp = ExpectedMonthly(sid, row.year, MonthOfLabel(row.month), "TMIN")
  /\ \A sid \in DOMAIN yearly_written : \A i \in DOMAIN yearly_written[sid] :
       LET row == yearly_written[sid][i]
       IN  /\ row.avgMaxTemp = ExpectedSeasonal(sid, row.year, "TMAX")
           /\ row.avgMinTemp = ExpectedSeasonal(sid, row.year, "TMIN")
  /\ \A f \in DOMAIN agg_files : \A i \in DOMAIN agg_files[f] :
       \E sid \in ObservedStations :
         LET limit == IF f = "all" THEN 2025 ELSE 2000
         IN  /\ agg_files[f][i].avgMax = ExpectedBaseline(sid, limit, "TMAX")
             /\ agg_files[f][i].avgMin = ExpectedBaseline(sid, limit, "TMIN")
  /\ \A f \in DOMAIN ranked_files : \A i \in DOMAIN ranked_files[f] :
       LET row == ranked_files[f][i]
       IN  /\ row.month \in {"Oct", "Nov", "Dec", "Jan", "Feb", "Mar"}
           /\ FileValues(f, row.year, MonthOfLabel(row.month)) # <<>>
           /\ row.value = Hundredths(FileMean(f, row.year, MonthOfLabel(row.month)))
  /\ \A f \in DOMAIN tier_files : \A i \in DOMAIN tier_files[f] :
       tier_files[f][i].month \in {"Oct", "Nov", "Dec", "Jan"}
  /\ \A f \in DOMAIN series_files : \A i \in DOMAIN series_files[f] :
       LET row == series_files[f][i]
           nov == FileMean(f, row.year, 11)
           dec == FileMean(f, row.year, 12)
           jan == FileMean(f, row.year + 1, 1)
           total == RatAdd(RatAdd(nov, dec), jan)
       IN  /\ FileValues(f, row.year, 11) # <<>>
           /\ FileValues(f, row.year, 12) # <<>>
           /\ FileValues(f, row.year + 1, 1) # <<>>
           /\ row.avg = Hundredths(Rat(total.num, 3 * total.den))

\* C7 witness: both scripts have run on an input that holds a June
\* observation beside a complete Nov-Dec-Jan season, and the yearly report
\* and the seasonal series have rows.
C7_Witness ==
  /\ pc = "rank_done"
  /\ ret = "rows"
  /\ \E r \in Observations : r.date.m = 6
  /\ \E sid \in DOMAIN yearly_written : yearly_written[sid] # <<>>
  /\ \E f \in DOMAIN series_files : series_files[f] # <<>>

\* The baseline row a station is to have: its display name and the two
\* baselines below limit.
ExpectedBaselineRow(sid, limit) ==
  LET name == (CHOOSE r \in Observations : r.station_id = sid).station_name
  IN  [station |-> normalize_display_name(name),
       avgMax |-> ExpectedBaseline(sid, limit, "TMAX"),
       avgMin |-> ExpectedBaseline(sid, limit, "TMIN")]

\* C11: once gather has returned its rows, each baseline table (all-time:
\* season years below 2025, pre-2000: below 2000) holds one row per station,
\* with the rounded mean of the station's individual Nov S, Dec S and Jan S+1
\* monthly averages of those season years, TMAX and TMIN apart and blank
\* when nothing contributes, in case-insensitive display-name order.
C11_BaselinesOfEveryStation ==
  ret = "rows" =>
    \A f \in {"all", "pre2000"} :
      LET limit == IF f = "all" THEN 2025 ELSE 2000
          table == agg_files[f]
      IN  /\ Len(table) = Cardinality(ObservedStations)
          /\ \A sid \in ObservedStations :
               Cardinality({i \in DOMAIN table : table[i] = ExpectedBaselineRow(sid, limit)})
                 = Cardinality({t \in ObservedStations :
                                  ExpectedBaselineRow(t, limit) = ExpectedBaselineRow(sid, limit)})
          /\ \A i \in DOMAIN table : \A j \in DOMAIN table :
               i < j => ~StrLess(LowerStr(table[j].station), LowerStr(table[i].station))

\* C11 witness: two stations have their baseline rows, and one station's
\* all-time high differs from its pre-2000 high.
C11_Witness ==
  /\ ret = "rows"
  /\ Len(agg_files["all"]) = 2
  /\ \E i \in DOMAIN agg_files["all"] : \E j \in DOMAIN agg_files["pre2000"] :
       /\ agg_files["all"][i].station = agg_files["pre2000"][j].station
       /\ agg_files["all"][i].avgMax # None
       /\ agg_files["pre2000"][j].avgMax # None
       /\ agg_files["all"][i].avgMax # agg_files["pre2000"][j].avgMax

\* The baseline of a station below limit when the season years before the
\* station's earliest observed calendar year are left out, as in its yearly
\* report.
ExpectedBaselineFromYearlySeasons(sid, limit, kind) ==
  LET first == MinOf(ObservedYears(sid))
      yms == StableSort(
               SeqOfSet({<<r.date.y, r.date.m>> :
                           r \in {o \in Observations :
                                    /\ o.station_id = sid
                                    /\ o.date.m \in {11, 12, 1}
                                    /\ RowSeasonYear([year |-> o.date.y,
                                                      month |-> MonthAbbrs[o.date.m]]) < limit
                                    /\ RowSeasonYear([year |-> o.date.y,
                                                      month |-> MonthAbbrs[o.date.m]]) >= first}}),
               LAMBDA a, b : a[1] < b[1] \/ (a[1] = b[1] /\ a[2] < b[2]))
  IN  RoundedMean(Concat([i \in DOMAIN yms |-> ExpectedMonthly(sid, yms[i][1], yms[i][2], kind)]))

\* C15: no monthly average of a season year before a station's earliest
\* observed calendar year contributes to its baselines: every baseline row
\* is built from the season years of the station's yearly report that lie
\* below the table's limit.
C15_BaselineLeavesOutFirstSeason ==
  ret = "rows" =>
    \A f \in {"all", "pre2000"} :
      \A i \in DOMAIN agg_files[f] :
        \E sid \in ObservedStations :
          LET limit == IF f = "all" THEN 2025 ELSE 2000
          IN  /\ agg_files[f][i].station = ExpectedBaselineRow(sid, limit).station
              /\ agg_files[f][i].avgMax = ExpectedBaselineFromYearlySeasons(sid, limit, "TMAX")
              /\ agg_files[f][i].avgMin = ExpectedBaselineFromYearlySeasons(sid, limit, "TMIN")

\* The season years of a station file with a value in at least one of Nov S,
\* Dec S, Jan S+1, and the mean of the monthly means that exist.
FileSeasonYears(f) ==
  FileYears(f, 11) \cup FileYears(f, 12) \cup {y - 1 : y \in FileYears(f, 1)}

FileSeasonMean(f, sy) ==
  LET keys == SelectSeq(<< <<sy, 11>>, <<sy, 12>>, <<sy + 1, 1>> >>,
                        LAMBDA k : FileValues(f, k[1], k[2]) # <<>>)
      RECURSIVE total(_)
      total(n) == IF n = 0 THEN Rat(0, 1)
                  ELSE RatAdd(total(n - 1), FileMean(f, keys[n][1], keys[n][2]))
  IN  Rat(total(Len(keys)).num, Len(keys) * total(Len(keys)).den)

\* C12: once the analysis has run, every season year of a station file with
\* at least one of Nov S, Dec S, Jan S+1 present has a row in the station's
\* seasonal series, with the mean of the monthly means that exist, and a
\* row with a rank and a degreesBelowTop value in the ranking table.
C12_EverySeasonWithAMonthIsRanked ==
  pc = "rank_done" =>
    \A f \in DOMAIN series_files :
      \A sy \in FileSeasonYears(f) :
        /\ \E i \in DOMAIN series_files[f] :
             /\ series_files[f][i].year = sy
             /\ series_files[f][i].avg = Hundredths(FileSeasonMean(f, sy))
        /\ \E i \in DOMAIN ranking_files[IF f[1] = "TMAX" THEN "high" ELSE "low"] :
             ranking_files[IF f[1] = "TMAX" THEN "high" ELSE "low"][i].year = sy

\* C13: normalize_display_name is idempotent: applied to its own result for
\* any raw name, it returns that result again.
C13_NormalizeDisplayNameIdempotent ==
  pc = "name_done" => name_again = name_out

\* C13 witness: a lower-case "miles city" with a comma suffix was normalized
\* to Miles City, and Miles City was normalized again.
C13_Witness ==
  /\ pc = "name_done"
  /\ name_in = <<"miles", " ", "city", ",">>
  /\ name_out = <<"Miles", " ", "City">>

\* avg is the mean of vals rounded to the nearest integer, a tie going to
\* the even one; absent when vals is empty.
IsNearestEvenMean(avg, vals) ==
  IF vals = <<>> THEN avg = <<>>
  ELSE /\ Len(avg) = 1
       /\ LET off == 2 * (Len(vals) * avg[1] - SumSeq(vals))
          IN  /\ off <= Len(vals)
              /\ -off <= Len(vals)
              /\ (off = Len(vals) \/ -off = Len(vals)) => avg[1] % 2 = 0

\* C14: once the monthly averages are computed, a station has an entry for
\* exactly the (year, month) keys with an observation, and each entry holds,
\* per kind, the mean of the values observed for the key rounded to the
\* nearest integer (ties to even), or None when the kind has no value.
C14_MonthlyAverageRoundsHalfToEven ==
  pc \in {"monthly_csv", "yearly_csv", "write_output", "done", "error"} =>
    /\ DOMAIN monthly_avgs = ObservedStations
    /\ \A sid \in ObservedStations :
         /\ DOMAIN monthly_avgs[sid]
              = {<<r.date.y, r.date.m>> : r \in {o \in Observations : o.station_id = sid}}
         /\ \A ym \in DOMAIN monthly_avgs[sid] :
              /\ IsNearestEvenMean(monthly_avgs[sid][ym][1],
                                   ObservedValues(sid, ym[1], ym[2], "TMAX"))
              /\ IsNearestEvenMean(monthly_avgs[sid][ym][2],
                                   ObservedValues(sid, ym[1], ym[2], "TMIN"))

\* C14 witness: highs of 24 and 25 in November give 24, highs of 25 and 26
\* in December give 26, and December has no low.
C14_Witness ==
  /\ pc = "done"
  /\ "GHCND:1" \in DOMAIN monthly_avgs
  /\ <<1999, 11>> \in DOMAIN monthly_avgs["GHCND:1"]
  /\ <<1999, 12>> \in DOMAIN monthly_avgs["GHCND:1"]
  /\ Range(ObservedValues("GHCND:1", 1999, 11, "TMAX")) = {24, 25}
  /\ Range(ObservedValues("GHCND:1", 1999, 12, "TMAX")) = {25, 26}
  /\ monthly_avgs["GHCND:1"][<<1999, 11>>] = <<Some(24), None>>
  /\ monthly_avgs["GHCND:1"][<<1999, 12>>] = <<Some(26), None>>

\* C16: noaa_get issues at most five requests; a response of 429, 500, 502,
\* 503 or 504 or a transport error is the only thing followed by a wait and
\* another request; a 400, 401 or 404 response is the last request and
\* noaa_get raises on it without a wait; it returns on the first 200.
C16_ClientErrorRaisesAtOnce ==
  /\ Len(responses) <= 5
  /\ \A i \in DOMAIN responses :
       /\ responses[i] \in {400, 401, 404} =>
            /\ i = Len(responses)
            /\ result = "raised"
            /\ Len(sleeps) < i
       /\ responses[i] = 200 => i = Len(responses) /\ result = "returned"
  /\ result = "returned" => responses # <<>> /\ responses[Len(responses)] = 200
  /\ result = "pending" => Len(responses) < 5

\* The winters of a station file with Nov, Dec and Jan all present.
CompleteWinters(f) ==
  {sy \in FileSeasonYears(f) :
     /\ FileValues(f, sy, 11) # <<>>
     /\ FileValues(f, sy, 12) # <<>>
     /\ FileValues(f, sy + 1, 1) # <<>>}

\* C17: in each seasonal ranking table the rows are in (station name without
\* case, rank) order; a station's rows are as many as its file has ranked
\* winters and carry the ranks 1..N once each; the rank-1 row is 0 degrees
\* below the top; degreesBelowTop is never negative and never falls as the
\* rank grows.
C17_RankingTableWellFormed ==
  \A k \in DOMAIN ranking_files :
    LET table == ranking_files[k]
        of(name) == {i \in DOMAIN table : table[i].station = name}
    IN  /\ \A i \in DOMAIN table : \A j \in DOMAIN table :
             i < j =>
               \/ StrLess(LowerStr(table[i].station), LowerStr(table[j].station))
               \/ /\ LowerStr(table[i].station) = LowerStr(table[j].station)
                  /\ table[i].ranking < table[j].ranking
        /\ \A f \in FilesOf(split, IF k = "high" THEN "TMAX" ELSE "TMIN") :
             Cardinality(of(split[f][1].station_name)) = Cardinality(CompleteWinters(f))
        /\ \A i \in DOMAIN table :
             /\ {table[j].ranking : j \in of(table[i].station)}
                  = 1..Cardinality(of(table[i].station))
             /\ table[i].degreesBelowTop >= 0
             /\ table[i].ranking = 1 => table[i].degreesBelowTop = 0
             /\ \A j \in of(table[i].station) :
                  table[i].ranking < table[j].ranking
                    => table[i].degreesBelowTop <= table[j].degreesBelowTop

\* C17 witness: the high table ranks two winters of one station, the second
\* below the first, and a winter of another station.
C17_Witness ==
  /\ pc = "rank_done"
  /\ "high" \in DOMAIN ranking_files
  /\ Len(ranking_files["high"]) = 3
  /\ ranking_files["high"][1].station = ranking_files["high"][2].station
  /\ ranking_files["high"][2].ranking = 2
  /\ ranking_files["high"][2].degreesBelowTop > 0
  /\ ranking_files["high"][3].station # ranking_files["high"][1].station

\* Every record the server holds for a station, year by year.
CompleteRecords(station_id) ==
  LET st == CHOOSE t \in Range(StationList) : t.id = station_id
  IN  Concat([i \in 1..(st.maxdate - st.mindate + 1) |->
                ServerRecords(station_id, st.mindate + i - 1)])

====
